---- MODULE Spec2Model ----
(***************************************************************************)
(* Model of the question-answering pipeline of rag_engine.py (the same     *)
(* functions are duplicated in streamlit_bot.py): table selection, query   *)
(* synthesis with response sanitization, query execution and answer        *)
(* rendering, and the front-end handler that chains them.                  *)
(*                                                                         *)
(* Strings are sequences of one-character strings.  The character written  *)
(* "sz" stands for U+00DF (LATIN SMALL LETTER SHARP S), whose upper-case   *)
(* form in Python is the two characters "SS", and the character written   *)
(* "bt" stands for U+0060 (GRAVE ACCENT, the backtick).                    *)
(***************************************************************************)
EXTENDS Integers, Sequences, FiniteSets, TLC

VARIABLES
    TABLE_METADATA,  \* the table descriptors loaded at start-up
    pc,              \* the position of the running call
    user_query,      \* the question
    selected,        \* what select_relevant_tables returned
    reply,           \* what the model backend did
    gen,             \* what generate_sql_query returned
    conn,            \* the number of open database connections
    dbres,           \* what execute_sql returned
    answer,          \* what frame_answer returned
    output,          \* the entries written to the output widget
    calls            \* which stages were called and which failed

vars == <<TABLE_METADATA, pc, user_query, selected, reply, gen, conn, dbres,
          answer, output, calls>>

(***************************************************************************)
(* Bounds of the model.                                                    *)
(***************************************************************************)
MaxTables == 4
MaxQLen == 3
MaxGenTables == 1
MaxRespLen == 7
MaxRows == 2
MaxCols == 2

(***************************************************************************)
(* Generic helpers on sequences.                                           *)
(***************************************************************************)
Range(s) == {s[i] : i \in DOMAIN s}

SeqsUpTo(S, n) == UNION {[1..k -> S] : k \in 0..n}

Min(a, b) == IF a < b THEN a ELSE b

\* the Python slice s[:n]
Take(s, n) == SubSeq(s, 1, Min(n, Len(s)))

\* the Python slice s[n:] (n counts dropped elements)
Drop(s, n) == SubSeq(s, Min(n, Len(s)) + 1, Len(s))

RECURSIVE Concat(_)
Concat(ss) == IF ss = <<>> THEN <<>> ELSE Head(ss) \o Concat(Tail(ss))

(***************************************************************************)
(* Python string operations, character by character.                       *)
(***************************************************************************)
Whitespace == {" ", "\n", "\t"}

\* str.lower() on one character: one character in, one character out
LowerChar(c) ==
    CASE c = "A" -> "a"
      [] c = "B" -> "b"
      [] c = "S" -> "s"
      [] c = "T" -> "t"
      [] c = "O" -> "o"
      [] c = "P" -> "p"
      [] OTHER -> c

\* str.upper() on one character: U+00DF has no single upper-case character
UpperChar(c) ==
    CASE c = "a" -> <<"A">>
      [] c = "b" -> <<"B">>
      [] c = "s" -> <<"S">>
      [] c = "t" -> <<"T">>
      [] c = "o" -> <<"O">>
      [] c = "p" -> <<"P">>
      [] c = "sz" -> <<"S", "S">>
      [] OTHER -> <<c>>

Lower(s) == [i \in DOMAIN s |-> LowerChar(s[i])]

Upper(s) == Concat([i \in DOMAIN s |-> UpperChar(s[i])])

RECURSIVE LStrip(_)
LStrip(s) == IF s # <<>> /\ Head(s) \in Whitespace THEN LStrip(Tail(s)) ELSE s

RECURSIVE RStrip(_)
RStrip(s) ==
    IF s # <<>> /\ s[Len(s)] \in Whitespace
    THEN RStrip(SubSeq(s, 1, Len(s) - 1))
    ELSE s

\* str.strip()
Strip(s) == RStrip(LStrip(s))

\* the longest prefix of s without whitespace
RECURSIVE WordLen(_)
WordLen(s) ==
    IF s = <<>> \/ Head(s) \in Whitespace THEN 0 ELSE 1 + WordLen(Tail(s))

\* str.split(): the maximal runs of non-whitespace characters, in order
RECURSIVE Split(_)
Split(s) ==
    LET t == LStrip(s)
        n == WordLen(t)
    IN  IF t = <<>> THEN <<>> ELSE <<SubSeq(t, 1, n)>> \o Split(Drop(t, n))

\* needle in haystack (substring test)
Contains(hay, needle) ==
    \E i \in 0..(Len(hay) - Len(needle)) :
        SubSeq(hay, i + 1, i + Len(needle)) = needle

(***************************************************************************)
(* JSON values met in table_metadata.json.  A value is a string, null, or  *)
(* absent (the key is missing).                                            *)
(***************************************************************************)
JStr(s) == [t |-> "str", s |-> s]
JNull == [t |-> "null", s |-> <<>>]
JAbsent == [t |-> "absent", s |-> <<>>]

\* str(d.get(key, "")): a missing key is "", null is the text None
StrOrEmpty(v) ==
    CASE v.t = "str" -> v.s
      [] v.t = "null" -> <<"N", "o", "n", "e">>
      [] OTHER -> <<>>

\* column entries: a bare string, a dict (name is the value under "name"),
\* or any other JSON value
ColStr(s) == [kind |-> "str", name |-> JStr(s), type |-> JAbsent]
ColDict(n, ty) == [kind |-> "dict", name |-> n, type |-> ty]
ColOther == [kind |-> "other", name |-> JAbsent, type |-> JAbsent]

Table(n, d, cols) == [table_name |-> n, description |-> d, columns |-> cols]

(***************************************************************************)
(* Table selection: select_relevant_tables.                                *)
(***************************************************************************)
\* the loop over raw_columns; raised when c["name"].lower() has no lower()
RECURSIVE NormalizeColumns(_)
NormalizeColumns(raw) ==
    IF raw = <<>> THEN [raised |-> FALSE, cols |-> <<>>]
    ELSE LET c == Head(raw)
             rest == NormalizeColumns(Tail(raw))
         IN  IF c.kind = "dict" /\ c.name.t # "absent"
             THEN IF c.name.t = "str"
                  THEN [raised |-> rest.raised,
                        cols |-> <<Lower(c.name.s)>> \o rest.cols]
                  ELSE [raised |-> TRUE, cols |-> <<>>]
             ELSE IF c.kind = "str"
                  THEN [raised |-> rest.raised,
                        cols |-> <<Lower(c.name.s)>> \o rest.cols]
                  ELSE rest

\* keywords = set(table_name.split() + description.split() + columns)
Keywords(table) ==
    Range(Split(Lower(StrOrEmpty(table.table_name))))
        \cup Range(Split(Lower(StrOrEmpty(table.description))))
        \cup Range(NormalizeColumns(table.columns).cols)

QueryWords(query) == Range(Split(Lower(query)))

\* score = len(query_words.intersection(keywords))
Score(query, table) == Cardinality(QueryWords(query) \cap Keywords(table))

\* the loop over TABLE_METADATA: the (score, table) pairs with score > 0
RECURSIVE ScoreTables(_, _)
ScoreTables(query, metadata) ==
    IF metadata = <<>> THEN <<>>
    ELSE LET table == Head(metadata)
             score == Score(query, table)
         IN  (IF score > 0 THEN <<[score |-> score, table |-> table]>>
              ELSE <<>>) \o ScoreTables(query, Tail(metadata))

\* list.sort(key=score, reverse=True): stable, descending.  An element goes
\* after every element already placed whose score is not smaller.
\* a sort that places an element before the equal-scored ones already placed
RECURSIVE InsertDesc_unstable(_, _)
InsertDesc_unstable(sorted, x) ==
    IF sorted = <<>> THEN <<x>>
    ELSE IF Head(sorted).score > x.score
         THEN <<Head(sorted)>> \o InsertDesc_unstable(Tail(sorted), x)
         ELSE <<x>> \o sorted

RECURSIVE InsertDesc(_, _)
InsertDesc(sorted, x) ==
    IF sorted = <<>> THEN <<x>>
    ELSE IF Head(sorted).score >= x.score
         THEN <<Head(sorted)>> \o InsertDesc(Tail(sorted), x)
         ELSE <<x>> \o sorted

RECURSIVE SortDescFrom(_, _)
SortDescFrom(done, todo) ==
    IF todo = <<>> THEN done
    ELSE SortDescFrom(InsertDesc(done, Head(todo)), Tail(todo))

SortByScoreDesc(scored) == SortDescFrom(<<>>, scored)

\* a fallback that hands back the whole metadata list
Fallback_all(metadata) == metadata

\* TABLE_METADATA[:3] when nothing scored
Fallback(metadata) == Take(metadata, 3)

\* the scored tables without the [:3] cut
TopTables_nocut(sorted) == [i \in 1..Len(sorted) |-> sorted[i].table]

\* [t for _, t in scored[:3]]
TopTables(sorted) == [i \in 1..Min(3, Len(sorted)) |-> sorted[i].table]

select_relevant_tables(query, metadata) ==
    IF \E i \in DOMAIN metadata : NormalizeColumns(metadata[i].columns).raised
    THEN [raised |-> TRUE, tables |-> <<>>]
    ELSE LET scored == ScoreTables(query, metadata)
         IN  IF scored = <<>>
             THEN [raised |-> FALSE, tables |-> Fallback(metadata)]
             ELSE [raised |-> FALSE,
                   tables |-> TopTables(SortByScoreDesc(scored))]

(***************************************************************************)
(* Inputs of the selection specification.                                  *)
(***************************************************************************)
\* keywords {a, b}: name and a bare-string column in upper case
TableAB == Table(JStr(<<"a">>), JAbsent, <<ColStr(<<"B">>)>>)
\* keywords {a, sz, "a b"}: no name; the malformed entries are skipped and
\* the column name "a b" is one keyword, never split
TableASz == Table(JAbsent, JStr(<<"A", " ", "sz">>),
                  <<ColDict(JAbsent, JAbsent), ColOther,
                    ColStr(<<"a", " ", "b">>)>>)
\* keywords {b, a}: a name-bearing column structure
TableBA == Table(JStr(<<"b">>), JStr(<<>>),
                 <<ColDict(JStr(<<"A">>), JStr(<<"i">>))>>)
\* a column structure whose name is null
TableBad == Table(JNull, JAbsent, <<ColStr(<<"a">>), ColDict(JNull, JAbsent)>>)

TableUniverse == {TableAB, TableASz, TableBA, TableBad}

Metadatas == SeqsUpTo(TableUniverse, MaxTables)

QChars == {"a", "b", " ", "sz"}

Questions == SeqsUpTo(QChars, MaxQLen)

NoSel == [raised |-> FALSE, tables |-> <<>>]
NoReply == [kind |-> "none", text |-> <<>>]
NoGen == [outcome |-> "none", sql |-> <<>>, err |-> <<>>, prompt |-> <<>>]
NoDb == [outcome |-> "none", rows |-> <<>>, cols |-> <<>>, err |-> <<>>]
NoCalls == [genFailed |-> FALSE, execCalled |-> FALSE, execFailed |-> FALSE,
            frameCalled |-> FALSE]

(***************************************************************************)
(* Specification of table selection: the metadata is loaded at start-up,   *)
(* then one question is submitted to select_relevant_tables.               *)
(***************************************************************************)
InitSelect ==
    /\ TABLE_METADATA \in Metadatas
    /\ pc = "loaded"
    /\ user_query = <<>>
    /\ selected = NoSel
    /\ reply = NoReply
    /\ gen = NoGen
    /\ conn = 0
    /\ dbres = NoDb
    /\ answer = <<>>
    /\ output = <<>>
    /\ calls = NoCalls

Select ==
    /\ pc = "loaded"
    /\ \E q \in Questions :
         /\ user_query' = q
         /\ selected' = select_relevant_tables(q, TABLE_METADATA)
    /\ pc' = "selected"
    /\ UNCHANGED <<TABLE_METADATA, reply, gen, conn, dbres, answer, output, calls>>

NextSelect == Select

SpecSelect == InitSelect /\ [][NextSelect]_vars

(***************************************************************************)
(* Properties of table selection.                                          *)
(***************************************************************************)
Returned == pc = "selected" /\ ~selected.raised

Occurrences(s, x) == Cardinality({i \in DOMAIN s : s[i] = x})

Positive == {i \in DOMAIN TABLE_METADATA : Score(user_query, TABLE_METADATA[i]) > 0}

\* C1: select_relevant_tables returns at most 3 tables, each of them a table
\* of the metadata list, and no table more often than the metadata list holds it.
C1_AtMostLimitFromInput ==
    Returned =>
        /\ Len(selected.tables) <= 3
        /\ \A i \in DOMAIN selected.tables :
             /\ selected.tables[i] \in Range(TABLE_METADATA)
             /\ Occurrences(selected.tables, selected.tables[i])
                  <= Occurrences(TABLE_METADATA, selected.tables[i])

C1_Witness ==
    /\ Returned
    /\ Len(TABLE_METADATA) = 4
    /\ Cardinality(Positive) = 4
    /\ Len(selected.tables) = 3

\* C2: when every table scores 0, the result is the first 3 tables of the
\* metadata list in their original order (the empty list when it is empty).
C2_FallbackLaw ==
    (Returned /\ Positive = {}) =>
        /\ Len(selected.tables) = Min(3, Len(TABLE_METADATA))
        /\ \A i \in DOMAIN selected.tables :
             selected.tables[i] = TABLE_METADATA[i]

C2_Witness ==
    /\ Returned
    /\ Positive = {}
    /\ Len(TABLE_METADATA) = 4
    /\ QueryWords(user_query) # {}
    /\ selected.tables = SubSeq(TABLE_METADATA, 1, 3)

\* C7: select_relevant_tables(Q) and select_relevant_tables(Q.upper()) return
\* the same sequence of tables.
C7_CaseSymmetry ==
    pc = "selected" =>
        selected = select_relevant_tables(Upper(user_query), TABLE_METADATA)

\* C9: whatever the shape of the column entries, select_relevant_tables
\* returns a table sequence without raising.
C9_MalformedNeverAborts == pc = "selected" => ~selected.raised

\* C10: when some table scores above 0 the result lists positions of the
\* metadata list that score above 0, by non-increasing score, equal scores in
\* metadata order; a position left out scores no higher than any returned one
\* and, at equal score, comes later in the metadata list.
C10_TopByScoreStable ==
    (Returned /\ Positive # {}) =>
        \E idx \in [1..Min(3, Cardinality(Positive)) -> Positive] :
            LET sc(i) == Score(user_query, TABLE_METADATA[i])
            IN  /\ Len(selected.tables) = Len(idx)
                /\ \A k \in DOMAIN idx : selected.tables[k] = TABLE_METADATA[idx[k]]
                /\ \A j, k \in DOMAIN idx :
                     j < k => \/ sc(idx[j]) > sc(idx[k])
                              \/ sc(idx[j]) = sc(idx[k]) /\ idx[j] < idx[k]
                /\ \A p \in Positive \ Range(idx) : \A k \in DOMAIN idx :
                     \/ sc(p) < sc(idx[k])
                     \/ sc(p) = sc(idx[k]) /\ p > idx[k]

C10_Witness ==
    /\ Returned
    /\ Cardinality(Positive) = 4
    /\ Score(user_query, TABLE_METADATA[1]) = 1
    /\ Score(user_query, TABLE_METADATA[2]) = 2
    /\ Score(user_query, TABLE_METADATA[3]) = 1
    /\ Score(user_query, TABLE_METADATA[4]) = 2
    /\ TABLE_METADATA[1] # TABLE_METADATA[3]
    /\ selected.tables
         = <<TABLE_METADATA[2], TABLE_METADATA[4], TABLE_METADATA[1]>>

(***************************************************************************)
(* Intent detection: is_ranking_query.                                     *)
(***************************************************************************)
RankingTerms ==
    {<<"t", "o", "p">>,
     <<"h", "i", "g", "h", "e", "s", "t">>,
     <<"l", "o", "w", "e", "s", "t">>,
     <<"m", "o", "s", "t">>,
     <<"l", "e", "a", "s", "t">>,
     <<"m", "a", "x", "i", "m", "u", "m">>,
     <<"m", "i", "n", "i", "m", "u", "m">>,
     <<"r", "a", "n", "k">>,
     <<"o", "r", "d", "e", "r">>}

is_ranking_query(query) == \E k \in RankingTerms : Contains(Lower(query), k)

(***************************************************************************)
(* Query synthesis: generate_sql_query.                                    *)
(***************************************************************************)
Fence == <<"bt", "bt", "bt">>

StartsWithFence(s) == Len(s) >= 3 /\ SubSeq(s, 1, 3) = Fence

\* the start positions (after an opening fence at 1) of a closing fence
ClosingFences(s) == {j \in 4..(Len(s) - 2) : SubSeq(s, j, j + 2) = Fence}

\* re.sub with the pattern fence, anything (lazy, DOTALL), fence and the
\* replacement "": scanning from the left, an
\* opening fence is deleted together with everything up to and including
\* the nearest closing fence; an opening fence with no closing one stays
RECURSIVE RemoveFenced(_)
RemoveFenced(s) ==
    IF s = <<>> THEN <<>>
    ELSE IF StartsWithFence(s) /\ ClosingFences(s) # {}
         THEN LET j == CHOOSE x \in ClosingFences(s) :
                           \A y \in ClosingFences(s) : x <= y
              IN  RemoveFenced(Drop(s, j + 2))
         ELSE <<Head(s)>> \o RemoveFenced(Tail(s))

\* lines 126-127: strip, delete the fenced regions, strip
Sanitize(content) == Strip(RemoveFenced(Strip(content)))

\* the schema lines of one table; raised on c[name] of a
\* structure without a name
RECURSIVE ColumnLines(_)
ColumnLines(cols) ==
    IF cols = <<>> THEN [raised |-> FALSE, lines |-> <<>>]
    ELSE LET c == Head(cols)
             rest == ColumnLines(Tail(cols))
         IN  IF c.kind = "dict"
             THEN IF c.name.t = "absent"
                  THEN [raised |-> TRUE, lines |-> <<>>]
                  ELSE [raised |-> rest.raised,
                        lines |-> <<[line |-> "column", name |-> c.name,
                                     type |-> JStr(StrOrEmpty(c.type))]>>
                                  \o rest.lines]
             ELSE IF c.kind = "str"
                  THEN [raised |-> rest.raised,
                        lines |-> <<[line |-> "column", name |-> c.name,
                                     type |-> JAbsent]>> \o rest.lines]
                  ELSE rest

\* the schema text, one "Table:" line per table followed by its column
\* lines; raised on t[table_name] of a table without that key
RECURSIVE SchemaLines(_)
SchemaLines(tables) ==
    IF tables = <<>> THEN [raised |-> FALSE, lines |-> <<>>]
    ELSE LET t == Head(tables)
             cl == ColumnLines(t.columns)
             rest == SchemaLines(Tail(tables))
         IN  IF t.table_name.t = "absent" \/ cl.raised
             THEN [raised |-> TRUE, lines |-> <<>>]
             ELSE [raised |-> rest.raised,
                   lines |-> <<[line |-> "table", name |-> t.table_name,
                                type |-> JAbsent]>> \o cl.lines \o rest.lines]

\* what ollama.chat does: it raises an exception whose str() is text, or it
\* returns a response whose message content is the string text, or it
\* returns a response without that string (a missing key, a null content),
\* on which line 126 raises inside the try block with a non-empty message
ReplyRaise(msg) == [kind |-> "raise", text |-> msg]
ReplyContent(txt) == [kind |-> "content", text |-> txt]
ReplyMalformed == [kind |-> "malformed", text |-> <<"m", "e", "s", "s", "a", "g", "e">>]

\* outcome "ok" is (sql, None), "err" is (None, str(e)), "raised" is an
\* exception leaving the function
generate_sql_query(query, metadata, rep) ==
    LET sel == select_relevant_tables(query, metadata)
        schema == SchemaLines(sel.tables)
        prompt == [schema |-> schema.lines, question |-> query]
    IN  IF sel.raised \/ schema.raised
        THEN [outcome |-> "raised", sql |-> <<>>, err |-> <<>>,
              prompt |-> <<>>]
        ELSE IF rep.kind = "content"
             THEN [outcome |-> "ok", sql |-> Sanitize(rep.text),
                   err |-> <<>>, prompt |-> prompt]
             ELSE [outcome |-> "err", sql |-> <<>>, err |-> rep.text,
                   prompt |-> prompt]

(***************************************************************************)
(* Specification of query synthesis: the metadata is loaded at start-up,   *)
(* then generate_sql_query runs on one question with one backend reply.    *)
(***************************************************************************)
SelectOne == <<"S", "E", "L", "E", "C", "T", " ", "1", ";">>

\* a query wrapped in a code fence, with a language tag or without
Wrapped(tag, q) == Fence \o tag \o <<"\n">> \o q \o <<"\n">> \o Fence

FenceTags == {<<>>, <<"s", "q", "l">>}
FencedQueries == {SelectOne, <<"q">>}
FencedReplies == {Wrapped(tag, q) : tag \in FenceTags, q \in FencedQueries}

ErrorTexts == {<<>>, <<"r", "e", "f", "u", "s", "e", "d">>}

ReplyChars == {"bt", "q", "\n"}

Replies ==
    {ReplyContent(txt) : txt \in SeqsUpTo(ReplyChars, MaxRespLen) \cup FencedReplies}
        \cup {ReplyRaise(msg) : msg \in ErrorTexts}
        \cup {ReplyMalformed}

GenMetadatas == SeqsUpTo(TableUniverse, MaxGenTables)

GenQuestions == {<<"a">>, <<"b">>}

InitGenerate ==
    /\ TABLE_METADATA \in GenMetadatas
    /\ pc = "loaded"
    /\ user_query = <<>>
    /\ selected = NoSel
    /\ reply = NoReply
    /\ gen = NoGen
    /\ conn = 0
    /\ dbres = NoDb
    /\ answer = <<>>
    /\ output = <<>>
    /\ calls = NoCalls

Generate ==
    /\ pc = "loaded"
    /\ \E q \in GenQuestions, rep \in Replies :
         /\ user_query' = q
         /\ reply' = rep
         /\ gen' = generate_sql_query(q, TABLE_METADATA, rep)
    /\ pc' = "generated"
    /\ UNCHANGED <<TABLE_METADATA, selected, conn, dbres, answer, output, calls>>

NextGenerate == Generate

SpecGenerate == InitGenerate /\ [][NextGenerate]_vars

\* C4: when the reply of the backend is a query wrapped in a code fence, the
\* returned sql is the enclosed query, free of backticks.
C4_FenceKeepsQuery ==
    \A tag \in FenceTags, q \in FencedQueries :
        (pc = "generated" /\ gen.outcome = "ok"
           /\ reply = ReplyContent(Wrapped(tag, q)))
        => gen.sql = q /\ "bt" \notin Range(gen.sql)

\* C5: generate_sql_query returns (sql, None) or (None, error) and never
\* raises; a backend that raises or returns a malformed or empty response
\* yields the error form.
C5_SynthesisReturnsErrors ==
    pc = "generated" =>
        /\ gen.outcome \in {"ok", "err"}
        /\ (reply.kind \in {"raise", "malformed"} \/ reply = ReplyContent(<<>>))
             => gen.outcome = "err"

(***************************************************************************)
(* Answer rendering: frame_answer.                                         *)
(***************************************************************************)
NoResults == <<"N", "o", " ", "r", "e", "s", "u", "l", "t", "s", " ", "f", "o", "u", "n", "d", ".">>

Digit(d) ==
    CASE d = 0 -> "0" [] d = 1 -> "1" [] d = 2 -> "2" [] d = 3 -> "3"
      [] d = 4 -> "4" [] d = 5 -> "5" [] d = 6 -> "6" [] d = 7 -> "7"
      [] d = 8 -> "8" [] OTHER -> "9"

\* str(i) of a natural number
RECURSIVE NatToStr(_)
NatToStr(n) ==
    IF n < 10 THEN <<Digit(n)>> ELSE NatToStr(n \div 10) \o <<Digit(n % 10)>>

\* sep.join(parts)
RECURSIVE Join(_, _)
Join(sep, parts) ==
    IF parts = <<>> THEN <<>>
    ELSE IF Len(parts) = 1 THEN Head(parts)
         ELSE Head(parts) \o sep \o Join(sep, Tail(parts))

\* ", ".join(f"{c}: {v}" for c, v in zip(cols, row))
RowLine(cols, row) ==
    Join(<<",", " ">>,
         [k \in 1..Min(Len(cols), Len(row)) |-> cols[k] \o <<":", " ">> \o row[k]])

RankPrefix(i) == <<"R", "a", "n", "k", " ">> \o NatToStr(i) \o <<":", " ">>

\* the text accumulated by the loop over enumerate(rows, 1) from row i on
RECURSIVE FrameLines(_, _, _, _)
FrameLines(ranking, rows, cols, i) ==
    IF i > Len(rows) THEN <<>>
    ELSE (IF ranking THEN RankPrefix(i) ELSE <<>>)
            \o RowLine(cols, rows[i]) \o <<"\n">>
            \o FrameLines(ranking, rows, cols, i + 1)

frame_answer(query, rows, cols) ==
    IF rows = <<>> THEN NoResults
    ELSE Strip(FrameLines(is_ranking_query(query), rows, cols, 1))

(***************************************************************************)
(* Specification of answer rendering: frame_answer runs on one question    *)
(* and one result set.                                                     *)
(***************************************************************************)
RenderQueries ==
    {<<"t", "o", "p">>, <<"T", "O", "P", " ", "b">>, <<"a", "l", "l">>, <<"s", "t", "o", "p">>}

ColNames == {<<"c">>, <<"d">>}

\* str(v) of the values of a row: a number, an empty string, a text of two lines
Values == {<<"1">>, <<>>, <<"x", "\n", "y">>}

RowSets == SeqsUpTo(SeqsUpTo(Values, MaxCols), MaxRows)

ColLists == SeqsUpTo(ColNames, MaxCols)

InitRender ==
    /\ TABLE_METADATA = <<>>
    /\ pc = "loaded"
    /\ user_query = <<>>
    /\ selected = NoSel
    /\ reply = NoReply
    /\ gen = NoGen
    /\ conn = 0
    /\ dbres = NoDb
    /\ answer = <<>>
    /\ output = <<>>
    /\ calls = NoCalls

FrameAnswer ==
    /\ pc = "loaded"
    /\ \E q \in RenderQueries, rows \in RowSets, cols \in ColLists :
         /\ user_query' = q
         /\ dbres' = [outcome |-> "ok", rows |-> rows, cols |-> cols,
                      err |-> <<>>]
         /\ answer' = frame_answer(q, rows, cols)
    /\ pc' = "framed"
    /\ UNCHANGED <<TABLE_METADATA, selected, reply, gen, conn, output, calls>>

NextRender == FrameAnswer

SpecRender == InitRender /\ [][NextRender]_vars

\* str.split("\n"): the pieces of a text between its line breaks
RECURSIVE SplitLines(_)
SplitLines(text) ==
    IF "\n" \notin Range(text) THEN <<text>>
    ELSE LET n == CHOOSE i \in DOMAIN text :
                      text[i] = "\n" /\ \A j \in 1..(i - 1) : text[j] # "\n"
         IN  <<SubSeq(text, 1, n - 1)>> \o SplitLines(Drop(text, n))

StartsWith(s, prefix) ==
    Len(s) >= Len(prefix) /\ SubSeq(s, 1, Len(prefix)) = prefix

\* C6: for a non-empty row set the answer has one line per row, and line i
\* starts with "Rank i: " exactly when the question is a ranking query.
C6_OneLinePerRow ==
    (pc = "framed" /\ dbres.rows # <<>>) =>
        LET lines == SplitLines(answer)
        IN  /\ Len(lines) = Len(dbres.rows)
            /\ \A i \in DOMAIN lines :
                 StartsWith(lines[i], RankPrefix(i)) <=> is_ranking_query(user_query)

(***************************************************************************)
(* Query execution: execute_sql.                                           *)
(***************************************************************************)
\* what the database does during one call: the stage that raises a
\* mysql.connector.Error ("none" when no stage does), the str() of that
\* error, and the rows and column names of a successful query
DbOutcome(fail, msg, rows, cols) ==
    [fail |-> fail, msg |-> msg, rows |-> rows, cols |-> cols]

\* the value returned: (rows, columns, None) or (None, None, str(e))
execute_sql(sql, out) ==
    IF out.fail = "none"
    THEN [outcome |-> "ok", rows |-> out.rows, cols |-> out.cols, err |-> <<>>]
    ELSE [outcome |-> "err", rows |-> <<>>, cols |-> <<>>, err |-> out.msg]

\* the connections the call leaves open: conn.close() is reached only when
\* connect, execute, fetchall and the read of cursor.description all succeed
LeftOpen(out) == IF out.fail \in {"none", "connect"} THEN 0 ELSE 1

(***************************************************************************)
(* The front-end handler: chatbot_ui.handle_query, one question.           *)
(***************************************************************************)
\* the truth value Python gives to the error slot of a returned tuple:
\* None and the empty string are both false
Truthy(res) == res.outcome = "err" /\ res.err # <<>>

Entry(tag, text) == [tag |-> tag, text |-> text]

InputTexts == {<<"a">>, <<" ", " ">>, <<" ", "t", "o", "p", " ", "b", "\n">>, <<"s", "z">>}

PipeMetadatas == SeqsUpTo(TableUniverse, MaxGenTables)

PipeReplies ==
    {ReplyContent(txt) : txt \in {<<>>, SelectOne, Wrapped(<<"s", "q", "l">>, SelectOne)}}
        \cup {ReplyRaise(msg) : msg \in ErrorTexts}
        \cup {ReplyMalformed}

\* the str() of a mysql.connector.Error is never empty
DbErrorTexts == {<<"d", "e", "n", "i", "e", "d">>, <<"s", "y", "n", "t", "a", "x">>}

DbOutcomes ==
    {DbOutcome(f, m, <<>>, <<>>) :
        f \in {"connect", "execute", "fetchall"}, m \in DbErrorTexts}
      \cup {DbOutcome("none", <<>>, rows, <<<<"c">>>>) :
              rows \in SeqsUpTo(SeqsUpTo({<<"1">>}, 1) \ {<<>>}, MaxRows)}

\* a call with no statement to run (sql is None or empty) fetches no result
DbOutcomesFor(res) ==
    IF res.outcome = "ok" /\ res.sql # <<>> THEN DbOutcomes
    ELSE {o \in DbOutcomes : o.fail # "none"}

Init ==
    /\ TABLE_METADATA \in PipeMetadatas
    /\ pc = "idle"
    /\ user_query = <<>>
    /\ selected = NoSel
    /\ reply = NoReply
    /\ gen = NoGen
    /\ conn = 0
    /\ dbres = NoDb
    /\ answer = <<>>
    /\ output = <<>>
    /\ calls = NoCalls

\* lines 177-181: read the input box; an empty question ends the handler
Submit ==
    /\ pc = "idle"
    /\ \E raw \in InputTexts :
         LET q == Strip(raw)
         IN  IF q = <<>>
             THEN UNCHANGED <<pc, user_query, output>>
             ELSE /\ user_query' = q
                  /\ output' = Append(output, Entry("You", q))
                  /\ pc' = "synthesize"
    /\ UNCHANGED <<TABLE_METADATA, selected, reply, gen, conn, dbres, answer,
                   calls>>

\* line 183: the call of generate_sql_query
Synthesize ==
    /\ pc = "synthesize"
    /\ \E rep \in PipeReplies :
         LET res == generate_sql_query(user_query, TABLE_METADATA, rep)
         IN  /\ reply' = rep
             /\ gen' = res
             /\ calls' = [calls EXCEPT !.genFailed = (res.outcome # "ok")]
             /\ pc' = IF res.outcome = "raised" THEN "crashed"
                      ELSE "synthesized"
    /\ UNCHANGED <<TABLE_METADATA, user_query, selected, conn, dbres, answer,
                   output>>

\* lines 184-186: if err, show it and return
ShowError ==
    /\ pc = "synthesized"
    /\ Truthy(gen)
    /\ output' = Append(output, Entry("Error", gen.err))
    /\ pc' = "done"
    /\ UNCHANGED <<TABLE_METADATA, user_query, selected, reply, gen, conn,
                   dbres, answer, calls>>

\* lines 188-190: show the sql and call execute_sql
Execute ==
    /\ pc = "synthesized"
    /\ ~Truthy(gen)
    /\ \E out \in DbOutcomesFor(gen) :
         LET res == execute_sql(gen.sql, out)
         IN  /\ dbres' = res
             /\ conn' = conn + LeftOpen(out)
             /\ calls' = [calls EXCEPT !.execCalled = TRUE,
                                       !.execFailed = (res.outcome # "ok")]
    /\ output' = Append(output, Entry("SQL", gen.sql))
    /\ pc' = "executed"
    /\ UNCHANGED <<TABLE_METADATA, user_query, selected, reply, gen, answer>>

\* lines 191-193: if db_err, show it and return
ShowDbError ==
    /\ pc = "executed"
    /\ Truthy(dbres)
    /\ output' = Append(output, Entry("DB Error", dbres.err))
    /\ pc' = "done"
    /\ UNCHANGED <<TABLE_METADATA, user_query, selected, reply, gen, conn,
                   dbres, answer, calls>>

\* lines 195-198: frame the answer and show it
Render ==
    /\ pc = "executed"
    /\ ~Truthy(dbres)
    /\ LET text == frame_answer(user_query, dbres.rows, dbres.cols)
       IN  /\ answer' = text
           /\ output' = Append(output, Entry("Bot", text))
    /\ calls' = [calls EXCEPT !.frameCalled = TRUE]
    /\ pc' = "done"
    /\ UNCHANGED <<TABLE_METADATA, user_query, selected, reply, gen, conn,
                   dbres>>

Next ==
    \/ Submit
    \/ Synthesize
    \/ ShowError
    \/ Execute
    \/ ShowDbError
    \/ Render

Spec == Init /\ [][Next]_vars

\* C3: execute_sql is never called after generate_sql_query failed, and
\* frame_answer is never called after execute_sql failed.
C3_FailedStageStops ==
    /\ ~(calls.genFailed /\ calls.execCalled)
    /\ ~(calls.execFailed /\ calls.frameCalled)

\* C8: once execute_sql has returned, with rows or with an error, the
\* connection it opened is closed.
C8_ConnectionReleased ==
    pc \in {"executed", "done"} /\ calls.execCalled =>
        /\ conn = 0
        /\ dbres.outcome \in {"ok", "err"}

====
